---- MODULE Spec2Model ----
(***************************************************************************)
(* The multi-noise biome search tree of pumpkin-world                      *)
(* (generation/multi_noise_sampler.rs): the registry of (NoiseHypercube,   *)
(* value) entries, TreeNode::create and the helpers it calls, and the      *)
(* nearest-match query with its per-worker cache that biome.rs calls as    *)
(* find_biome.                                                             *)
(*                                                                         *)
(* Numbers.  The f64 coordinates are even integers here, so that every     *)
(* midpoint (min + max) / 2 is an integer and every sum, difference,       *)
(* comparison and square of the code is exact; no NaN occurs, so each      *)
(* partial_cmp(..).unwrap_or(Equal) is the plain order of the integers.    *)
(***************************************************************************)
EXTENDS Integers, Sequences, FiniteSets, TLC

VARIABLES
    entries,    \* the registry: the sequence of (hypercube, value) entries
    pc,         \* "loaded" before create, then "ready", or "failed" after a panic
    root,       \* the tree create returned
    err,        \* the message of the panic that ended create
    cache,      \* the worker's cache: the leaf of its last query
    point,      \* the point of the last query
    label,      \* the value the last query returned (0: no query yet)
    carried_item,    \* the stack on the player's cursor (an Option)
    slots,           \* the container's slots, slot 0 first (Options)
    overflow_checks, \* the build: TRUE panics on integer overflow, FALSE wraps
    result,          \* how the last Container::handle_item_change ended
    call,            \* the arguments and the stacks of that call, before it
    clicks           \* the number of calls made

treevars == <<entries, pc, root, err, cache, point, label>>

invvars == <<carried_item, slots, overflow_checks, result, call, clicks>>

vars == <<entries, pc, root, err, cache, point, label,
          carried_item, slots, overflow_checks, result, call, clicks>>

----------------------------------------------------------------------------
(* Bounds of the model *)

\* longest registry whose hypercubes are enumerated exhaustively
MaxLen == 3

\* number of slots of the container that is clicked
NumSlots == 2

\* longest sequence of clicks
MaxClicks == 3

\* largest registry of the generated families
MaxN == 37

----------------------------------------------------------------------------
(* Data model *)

Abs(x) == IF x < 0 THEN -x ELSE x

Min2(a, b) == IF a <= b THEN a ELSE b

Max2(a, b) == IF a >= b THEN a ELSE b

RECURSIVE SumSeq(_)
SumSeq(s) == IF s = <<>> THEN 0 ELSE Head(s) + SumSeq(Tail(s))

\* a function on 1..n as the tuple of its values
Tuple(f) == f \o <<>>

ParameterRange(lo, hi) == [min |-> lo, max |-> hi]

\* a faulty combine, for testing the properties: the lower end of the other
\* range is ignored
combine_keeps_min(self, other) ==
    [min |-> self.min, max |-> Max2(self.max, other.max)]

\* ParameterRange::combine
combine(self, other) ==
    [min |-> Min2(self.min, other.min), max |-> Max2(self.max, other.max)]

NoiseHypercube(t, e, d, c, w, h, o) ==
    [temperature |-> t, erosion |-> e, depth |-> d, continentalness |-> c,
     weirdness |-> w, humidity |-> h, offset |-> o]

\* a faulty to_parameters, for testing the properties: the fields in the
\* order of their declaration, not in the order of the parameters
to_parameters_in_field_order(self) ==
    << self.temperature, self.erosion, self.depth, self.continentalness,
       self.weirdness, self.humidity, ParameterRange(self.offset, self.offset) >>

\* NoiseHypercube::to_parameters
to_parameters(self) ==
    << self.temperature, self.humidity, self.continentalness, self.erosion,
       self.depth, self.weirdness, ParameterRange(self.offset, self.offset) >>

Leaf(value, pt) == [kind |-> "Leaf", value |-> value, point |-> pt]

Branch(children, bnds) == [kind |-> "Branch", children |-> children, bounds |-> bnds]

\* a panic raised while the tree is built, carried up to the caller
Panic(msg) == [kind |-> "Panic", msg |-> msg]

\* no node: the tree before create, the empty cache
NoNode == [kind |-> "None"]

\* TreeNode::bounds
bounds(node) == IF node.kind = "Leaf" THEN node.point ELSE node.bounds

\* TreeNode::children
children(node) == IF node.kind = "Leaf" THEN <<>> ELSE node.children

----------------------------------------------------------------------------
(* Sorting: slice::sort_by is a stable sort, so its result is fixed by the  *)
(* comparator: an element goes after every element that compares less and   *)
(* after the equal ones that precede it in the input.                       *)

\* lexicographic order of two key tuples of the same length
LexLess(a, b) ==
    \E i \in 1..Len(a) : a[i] < b[i] /\ \A j \in 1..(i - 1) : a[j] = b[j]

\* the stable sort of s by the key tuples keys[i] of its elements: element i
\* follows the elements that compare less and the equal ones before it
StableSort(s, keys) ==
    LET n == Len(s)
        rank == Tuple([i \in 1..n |->
                    Cardinality({j \in 1..n : LexLess(keys[j], keys[i])})
                    + Cardinality({j \in 1..(i - 1) : keys[j] = keys[i]})])
    IN  Tuple([r \in 1..n |-> s[CHOOSE i \in 1..n : rank[i] = r - 1]])

\* TreeNode::get_midpoint (parameter counts from 0, as in the code)
get_midpoint(node, parameter) ==
    LET range == bounds(node)[parameter + 1]
    IN  (range.min + range.max) \div 2

\* a faulty calculate_midpoint_sum, for testing the properties: the
\* midpoints are summed with their signs
calculate_midpoint_sum_signed(node) ==
    SumSeq(Tuple([i \in 1..7 |-> (bounds(node)[i].min + bounds(node)[i].max) \div 2]))

\* TreeNode::calculate_midpoint_sum
calculate_midpoint_sum(node) ==
    SumSeq(Tuple([i \in 1..7 |-> Abs(bounds(node)[i].min + bounds(node)[i].max) \div 2]))

\* TreeNode::calculate_bounds_sum
calculate_bounds_sum(node) ==
    SumSeq(Tuple([i \in 1..7 |-> bounds(node)[i].max - bounds(node)[i].min]))

\* the inner loop of calculate_bounds: bounds[i] = bounds[i].combine(range)
combine_each(acc, ranges) == Tuple([i \in 1..7 |-> combine(acc[i], ranges[i])])

\* the bounds of nodes[lo..hi] combined
RECURSIVE combine_bounds(_, _, _)
combine_bounds(nodes, lo, hi) ==
    IF lo = hi THEN bounds(nodes[lo])
    ELSE combine_each(combine_bounds(nodes, lo, (lo + hi) \div 2),
                      combine_bounds(nodes, (lo + hi) \div 2 + 1, hi))

\* a faulty calculate_bounds, for testing the properties: the loop stops
\* before the last node
calculate_bounds_without_last(nodes) ==
    combine_bounds(nodes, 1, Max2(1, Len(nodes) - 1))

\* TreeNode::calculate_bounds of a non-empty slice: the bounds of nodes[0]
\* combined with those of every later node.  The loop's combines are grouped
\* here by halves of the slice instead of from the left, which keeps the
\* evaluation shallow and gives the same ranges for any combine that is
\* associative, as the min and max of the code are
calculate_bounds(nodes) == combine_bounds(nodes, 1, Len(nodes))

\* TreeNode::sort_tree
sort_tree(sub_tree, parameter_offset, abs) ==
    LET key(node) ==
            Tuple([i \in 1..7 |->
                LET current_param == (parameter_offset + (i - 1)) % 7
                    mid == get_midpoint(node, current_param)
                IN  IF abs THEN Abs(mid) ELSE mid])
    IN  StableSort(sub_tree, Tuple([k \in 1..Len(sub_tree) |-> key(sub_tree[k])]))

\* 6 to the power k
RECURSIVE Pow6(_)
Pow6(k) == IF k = 0 THEN 1 ELSE 6 * Pow6(k - 1)

\* floor(log6(x)) for x >= 1 given in hundredths: the largest k >= from with
\* 6^k <= x
RECURSIVE floor_log6(_, _)
floor_log6(hundredths, from) ==
    IF 100 * Pow6(from + 1) <= hundredths THEN floor_log6(hundredths, from + 1) ELSE from

\* faulty chunk sizes, for testing the properties: always 6; the logarithm
\* rounded up; the exponent one too small
chunk_size_six(node_count) == 6

chunk_size_rounded_up(node_count) ==
    LET hundredths == 100 * node_count - 1
    IN  IF hundredths < 100 THEN 1 ELSE Pow6(floor_log6(hundredths, 0) + 1)

chunk_size_exponent_less(node_count) ==
    LET hundredths == 100 * node_count - 1
    IN  IF hundredths < 600 THEN 1 ELSE Pow6(floor_log6(hundredths, 0) - 1)

\* the chunk size of get_batched_tree,
\*   6.0f64.powf((node_count as f64 - 0.01).log(6.0).floor()) as usize:
\* below 1 the logarithm is negative, the power is a fraction and the cast
\* gives 0
chunk_size(node_count) ==
    LET hundredths == 100 * node_count - 1
    IN  IF hundredths < 100 THEN 0 ELSE Pow6(floor_log6(hundredths, 0))

\* a faulty chunks, for testing the properties: slice::chunks_exact, which
\* leaves the shorter last run out
chunks_exact(nodes, size) ==
    Tuple([b \in 1..(Len(nodes) \div size) |->
                SubSeq(nodes, (b - 1) * size + 1, b * size)])

\* slice::chunks: consecutive runs of chunk_size elements, the last one shorter
chunks(nodes, size) ==
    LET n == Len(nodes)
    IN  Tuple([b \in 1..((n + size - 1) \div size) |->
                SubSeq(nodes, (b - 1) * size + 1, Min2(b * size, n))])

\* TreeNode::get_batched_tree (create_node calls it with more than 6 nodes)
get_batched_tree(nodes) ==
    IF Len(nodes) = 0 THEN <<>>
    ELSE LET parts == chunks(nodes, chunk_size(Len(nodes)))
         IN  Tuple([b \in 1..Len(parts) |-> Branch(parts[b], calculate_bounds(parts[b]))])

\* the sort of the small group in create_node, by calculate_midpoint_sum
sort_by_midpoint_sum(sub_tree) ==
    StableSort(sub_tree,
               Tuple([k \in 1..Len(sub_tree) |-> <<calculate_midpoint_sum(sub_tree[k])>>]))

\* the dimensions create_node tries as the split, (0..7)
SplitParams == 0..6

\* the score of a batched tree: the sum of its nodes' calculate_bounds_sum
range_sum(batched_tree) ==
    SumSeq(Tuple([b \in 1..Len(batched_tree) |-> calculate_bounds_sum(batched_tree[b])]))

\* the scores of the 7 splits create_node tries: range_sums[param_idx + 1] is
\* the score of the group sorted at param_idx and batched
range_sums(sub_tree) ==
    Tuple([i \in 1..7 |-> range_sum(get_batched_tree(sort_tree(sub_tree, i - 1, FALSE)))])

\* Iterator::min_by over the splits: the first of the least scores
min_by(sums) ==
    CHOOSE a \in SplitParams :
        /\ \A b \in SplitParams : sums[a + 1] <= sums[b + 1]
        /\ \A b \in SplitParams : b < a => sums[b + 1] > sums[a + 1]

\* the batches of the best split, sorted again by absolute midpoints
best_batched(sub_tree, best_param) ==
    sort_tree(get_batched_tree(sort_tree(sub_tree, best_param, FALSE)), best_param, TRUE)

\* a build that failed: a panic, or a recursion that does not shrink
Failed(node) == node.kind \in {"Panic", "Diverges"}

\* the branch over the nodes made from the batches; a failed child fails
\* the whole build
branch_of(made) ==
    IF \E b \in 1..Len(made) : Failed(made[b])
    THEN made[CHOOSE b \in 1..Len(made) :
                Failed(made[b]) /\ \A c \in 1..(b - 1) : ~Failed(made[c])]
    ELSE Branch(made, calculate_bounds(made))

\* TreeNode::create_node.  A recursive call on a group that is not smaller
\* than the caller's never returns in the code; here it is not unfolded and
\* gives the node Diverges.
RECURSIVE create_node(_)
create_children(batches, size) ==
    Tuple([b \in 1..Len(batches) |->
            IF Len(children(batches[b])) < size THEN create_node(children(batches[b]))
            ELSE [kind |-> "Diverges", msg |-> "create_node recurses forever"]])

\* a faulty create_node, for testing the properties: groups of up to 7 nodes
\* become one branch
create_node_seven(sub_tree) ==
    IF Len(sub_tree) = 1 THEN sub_tree[1]
    ELSE IF Len(sub_tree) = 0
    THEN Panic("index out of bounds")
    ELSE IF Len(sub_tree) <= 7
    THEN Branch(sort_by_midpoint_sum(sub_tree),
                calculate_bounds(sort_by_midpoint_sum(sub_tree)))
    ELSE branch_of(create_children(best_batched(sub_tree, min_by(range_sums(sub_tree))),
                                   Len(sub_tree)))

create_node(sub_tree) ==
    IF Len(sub_tree) = 1 THEN sub_tree[1]
    ELSE IF Len(sub_tree) = 0
    THEN Panic("index out of bounds")   \* nodes[0] in calculate_bounds
    ELSE IF Len(sub_tree) <= 6
    THEN Branch(sort_by_midpoint_sum(sub_tree),
                calculate_bounds(sort_by_midpoint_sum(sub_tree)))
    ELSE IF SplitParams = {} THEN Panic("Failed to create a node")
    ELSE branch_of(create_children(best_batched(sub_tree, min_by(range_sums(sub_tree))),
                                   Len(sub_tree)))

\* TreeNode::create
create(es) ==
    create_node(Tuple([i \in 1..Len(es) |-> Leaf(es[i].value, to_parameters(es[i].hypercube))]))

----------------------------------------------------------------------------
(* The nearest-match query of the search tree, with the worker's cache *)

NoiseValuePoint(t, e, d, c, w, h) ==
    [temperature |-> t, erosion |-> e, depth |-> d, continents |-> c,
     weirdness |-> w, humidity |-> h]

\* the point in the order of the hypercube's parameters; the offset, which no
\* sample provides, is the constant 0
point_parameters(pt) ==
    << pt.temperature, pt.humidity, pt.continents, pt.erosion, pt.depth,
       pt.weirdness, 0 >>

\* squared distance of a point to a box: 0 in a dimension whose range holds
\* the coordinate
distance(ranges, p) ==
    SumSeq(Tuple([i \in 1..7 |->
              IF p[i] < ranges[i].min THEN (ranges[i].min - p[i]) * (ranges[i].min - p[i])
              ELSE IF p[i] > ranges[i].max THEN (p[i] - ranges[i].max) * (p[i] - ranges[i].max)
              ELSE 0]))

\* the point lies within the box in all 7 dimensions
contains(ranges, p) ==
    \A i \in 1..7 : ranges[i].min <= p[i] /\ p[i] <= ranges[i].max

\* the pruned descent: best is the closest leaf found so far (NoNode: none
\* yet); a leaf replaces best only when strictly closer (descend), and the
\* children of a branch are visited in order, a child being entered unless
\* its box is already no closer than best (visit, from child k on)
RECURSIVE descend(_, _, _)
RECURSIVE visit(_, _, _, _)
descend(node, p, best) ==
    IF node.kind = "Leaf"
    THEN IF best.kind = "None" \/ distance(node.point, p) < distance(best.point, p)
         THEN node ELSE best
    ELSE visit(node.children, 1, p, best)

visit(nodes, k, p, best) ==
    IF k > Len(nodes) THEN best
    ELSE LET entered == IF best.kind # "None"
                           /\ distance(bounds(nodes[k]), p) >= distance(best.point, p)
                        THEN best
                        ELSE descend(nodes[k], p, best)
         IN  visit(nodes, k + 1, p, entered)

\* query: the cached leaf when the point lies within its bounds, else the
\* winner of the descent from the root
query(tree, pt, cached) ==
    LET p == point_parameters(pt)
    IN  IF cached.kind = "Leaf" /\ contains(cached.point, p) THEN cached
        ELSE descend(tree, p, NoNode)

----------------------------------------------------------------------------
(* The registries and the points of the model *)

R(lo, hi) == ParameterRange(lo, hi)

\* the hypercubes of the short registries: they differ in temperature,
\* humidity and offset
SmallCubes ==
    { NoiseHypercube(R(-4, -4), R(0, 0), R(0, 0), R(0, 0), R(0, 0), R(0, 0), 0),
      NoiseHypercube(R(0, 0),   R(0, 0), R(0, 0), R(0, 0), R(0, 0), R(0, 0), 0),
      NoiseHypercube(R(0, 4),   R(0, 0), R(0, 0), R(0, 0), R(0, 0), R(0, 2), 0),
      NoiseHypercube(R(-4, 4),  R(0, 0), R(0, 0), R(0, 0), R(0, 0), R(0, 0), 2),
      NoiseHypercube(R(2, 2),   R(0, 0), R(0, 0), R(0, 0), R(0, 0), R(2, 2), 0),
      NoiseHypercube(R(-2, 0),  R(0, 0), R(0, 0), R(0, 0), R(0, 0), R(-2, 2), 0) }

RECURSIVE SeqsUpTo(_, _)
SeqsUpTo(S, n) ==
    IF n = 0 THEN {<<>>}
    ELSE LET shorter == SeqsUpTo(S, n - 1)
         IN  shorter \cup {Append(s, x) : s \in {t \in shorter : Len(t) = n - 1}, x \in S}

\* an even number around 0, spread over the entries by a stride
Spread(i, stride, modulus) == 2 * (((i * stride) % modulus) - (modulus \div 2))

\* entry i of generated family k: every dimension varies
FamilyCube(k, i) ==
    LET t == Spread(i, k, 7)
        c == Spread(i, 2, 3)
    IN  NoiseHypercube(R(t - 2 * (i % 2), t + 2 * (i % 2)),
                       R(Spread(i + k, 3, 5), Spread(i + k, 3, 5)),
                       R(0, 2 * (i % 3)),
                       R(c - 2 * (k % 2), c + 2 * (k % 2)),
                       R(Spread(i * k, 1, 4), Spread(i * k, 1, 4)),
                       R(Spread(i, 5, 11), Spread(i, 5, 11) + 2),
                       2 * ((i + k) % 2))

\* entry i of the family of ties: the first two hypercubes are the same and
\* lie nearest to 0, the later ones ever farther below
TieCube(i) ==
    NoiseHypercube(R(-2 * Max2(1, i - 1), -2 * Max2(1, i - 1)),
                   R(0, 0), R(0, 0), R(0, 0), R(0, 0), R(0, 0), 0)

Families == 1..3

\* sizes of the generated registries: every size for the first family,
\* those around the powers of 6 for the others
FamilySizes(k) ==
    IF k = 1 THEN 4..MaxN ELSE {5, 6, 7, 8, 12, 36} \cup 37..MaxN

\* the registry with the given hypercubes; the value of an entry is its
\* place in the registry, so all values differ
Registry(cubes) ==
    Tuple([i \in 1..Len(cubes) |-> [hypercube |-> cubes[i], value |-> i]])

Registries ==
    {Registry(cubes) : cubes \in SeqsUpTo(SmallCubes, MaxLen)}
    \cup UNION {{Registry(Tuple([i \in 1..n |-> FamilyCube(k, i)])) : n \in FamilySizes(k)} : k \in Families}
    \cup {Registry(Tuple([i \in 1..n |-> TieCube(i)])) : n \in {2, 7}}

Points ==
    {NoiseValuePoint(t, 0, 0, 0, 0, h) : t \in {-4, 0, 2}, h \in {0, 2}}
    \cup {NoiseValuePoint(2, -2, 2, 2, -2, -4), NoiseValuePoint(-6, 2, 0, -2, 2, 6)}

NoPoint == NoiseValuePoint(0, 0, 0, 0, 0, 0)

----------------------------------------------------------------------------
(* The inventory: stacks, clicks and Container::handle_item_change *)

\* Option<ItemStack>: None, or Some stack
None == <<>>

Some(stack) == <<stack>>

ItemStack(item_id, item_count) == [item_id |-> item_id, item_count |-> item_count]

MouseClick == {"Left", "Right"}

\* item_count is an unsigned byte; arithmetic on it either panics (a build
\* with overflow checks) or wraps (a build without)
Overflows(v) == v < 0 \/ v > 255

Wrapped(v) == v % 256

\* what a call leaves in the two places it was given; panicked: the call
\* ended in a panic, which happens before its first write
Outcome(carried_slot, current_slot, panicked) ==
    [carried_slot |-> carried_slot, current_slot |-> current_slot, panicked |-> panicked]

\* combine_stacks: slot is a stack, carried_slot an Option
combine_stacks(carried_slot, slot, mouse_click, checks) ==
    IF carried_slot = None THEN Outcome(carried_slot, Some(slot), FALSE)
    ELSE LET carried_item_ == carried_slot[1]
             carried_change ==
                 IF mouse_click = "Left" THEN carried_item_.item_count ELSE 1
             sum == slot.item_count + carried_change
             rest == carried_item_.item_count - carried_change
         IN  IF checks /\ Overflows(sum)
             THEN Outcome(carried_slot, Some(slot), TRUE)
             ELSE IF Wrapped(sum) <= 64
             THEN IF checks /\ Overflows(rest)
                  THEN Outcome(carried_slot, Some(slot), TRUE)
                  ELSE Outcome(
                         IF Wrapped(rest) = 0 THEN None
                         ELSE Some(ItemStack(carried_item_.item_id, Wrapped(rest))),
                         Some(ItemStack(slot.item_id, Wrapped(sum))),
                         FALSE)
             ELSE \* left_over = slot.item_count + carried_change - 64
                  Outcome(Some(ItemStack(carried_item_.item_id, Wrapped(sum) - 64)),
                          Some(ItemStack(slot.item_id, 64)),
                          FALSE)

\* handle_item_take: the outcome's current_slot is item_slot
handle_item_take(carried_item_, item_slot, mouse_click) ==
    IF item_slot = None THEN Outcome(carried_item_, item_slot, FALSE)
    ELSE LET item == item_slot[1]
             half == item.item_count \div 2
         IN  IF mouse_click = "Left"
             THEN Outcome(Some(item), None, FALSE)
             ELSE Outcome(Some(ItemStack(item.item_id, half)),
                          Some(ItemStack(item.item_id, item.item_count - half)),
                          FALSE)

\* the free function handle_item_change
handle_item_change(carried_slot, current_slot, mouse_click, checks) ==
    IF current_slot # None /\ carried_slot # None
    THEN \* swap or combine current and carried
         IF current_slot[1].item_id = carried_slot[1].item_id
         THEN combine_stacks(carried_slot, current_slot[1], mouse_click, checks)
         ELSE IF mouse_click = "Left"
         THEN Outcome(current_slot, carried_slot, FALSE)
         ELSE Outcome(carried_slot, current_slot, FALSE)
    ELSE IF current_slot = None /\ carried_slot # None
    THEN \* put held stack into empty slot
         IF mouse_click = "Left"
         THEN Outcome(None, carried_slot, FALSE)
         ELSE LET carried == carried_slot[1]
                  rest == carried.item_count - 1
              IN  IF checks /\ Overflows(rest)
                  THEN Outcome(carried_slot, current_slot, TRUE)
                  ELSE Outcome(Some(ItemStack(carried.item_id, Wrapped(rest))),
                               Some(ItemStack(carried.item_id, 1)),
                               FALSE)
    ELSE IF current_slot # None
    THEN \* take stack into carried
         handle_item_take(carried_slot, current_slot, mouse_click)
    ELSE Outcome(carried_slot, current_slot, FALSE)

\* what Container::handle_item_change returns and leaves behind
Returned(res, carried, all_slots) ==
    [result |-> res, carried_item |-> carried, slots |-> all_slots]

\* the slots with slot number `slot` (counted from 0) replaced
with_slot(all_slots, slot, stack) == [all_slots EXCEPT ![slot + 1] = stack]

\* the outcome of the free function, written back by a call that gave it
\* the carried item first and the slot second
written_back(out, all_slots, slot) ==
    IF out.panicked
    THEN Returned("panic: arithmetic overflow", out.carried_slot, all_slots)
    ELSE Returned("Ok", out.carried_slot, with_slot(all_slots, slot, out.current_slot))

\* the same for a call that gave it the slot first and the carried item second
written_back_crafted(out, carried, all_slots, slot) ==
    IF out.panicked
    THEN Returned("panic: arithmetic overflow", carried, all_slots)
    ELSE Returned("Ok", out.current_slot, with_slot(all_slots, slot, out.carried_slot))

\* Container::handle_item_change, the provided method of the trait
Container_handle_item_change(carried, all_slots, slot, mouse_click, taking_crafted, checks) ==
    IF slot > Len(all_slots)
    THEN Returned("Err(InvalidSlot)", carried, all_slots)
    ELSE IF slot >= Len(all_slots)
    THEN \* all_slots[slot] indexes past the end of the Vec
         Returned("panic: index out of bounds", carried, all_slots)
    ELSE IF taking_crafted
    THEN IF all_slots[slot + 1] # None /\ carried # None
         THEN IF all_slots[slot + 1][1].item_id = carried[1].item_id
              THEN written_back_crafted(
                     handle_item_change(all_slots[slot + 1], carried, mouse_click, checks),
                     carried, all_slots, slot)
              ELSE Returned("Ok", carried, all_slots)
         ELSE IF all_slots[slot + 1] # None
         THEN written_back_crafted(
                handle_item_change(all_slots[slot + 1], carried, mouse_click, checks),
                carried, all_slots, slot)
         ELSE Returned("Ok", carried, all_slots)
    ELSE written_back(
           handle_item_change(carried, all_slots[slot + 1], mouse_click, checks),
           all_slots, slot)

----------------------------------------------------------------------------
(* The state machine *)

\* no call of Container::handle_item_change has been made
NoCall == [slot |-> 0, mouse_click |-> "none", taking_crafted |-> FALSE,
           carried_item |-> None, slots |-> <<>>]

\* the world generator holds no container
NoInventory ==
    /\ carried_item = None
    /\ slots = <<>>
    /\ overflow_checks = TRUE
    /\ result = "none"
    /\ call = NoCall
    /\ clicks = 0

Init ==
    /\ entries \in Registries
    /\ pc = "loaded"
    /\ root = NoNode
    /\ err = "none"
    /\ cache = NoNode
    /\ point = NoPoint
    /\ label = 0
    /\ NoInventory

\* the tree is built once from the loaded registry
Create ==
    /\ pc = "loaded"
    /\ LET tree == create(entries)
       IN  IF Failed(tree)
           THEN /\ pc' = "failed"
                /\ err' = tree.msg
                /\ root' = NoNode
           ELSE /\ pc' = "ready"
                /\ err' = "none"
                /\ root' = tree
    /\ UNCHANGED <<entries, cache, point, label>>
    /\ UNCHANGED invvars

\* MultiNoiseBiomeSupplier::biome: one query of the worker at a sampled point
Query(pt) ==
    /\ pc = "ready"
    /\ LET leaf == query(root, pt, cache)
       IN  /\ cache' = leaf
           /\ label' = leaf.value
    /\ point' = pt
    /\ pc' = "ready"
    /\ UNCHANGED <<entries, root, err>>
    /\ UNCHANGED invvars

Next ==
    \/ Create
    \/ \E pt \in Points : Query(pt)

Spec == Init /\ [][Next]_vars

\* the item ids and the counts of the stacks a session starts with
ItemIds == {1, 2}

StartCounts == {1, 2, 63, 64}

Stacks == {None} \cup {Some(ItemStack(id, n)) : id \in ItemIds, n \in StartCounts}

\* a player with an open container of NumSlots slots; no tree is involved
InventoryInit ==
    /\ entries = <<>>
    /\ pc = "inventory"
    /\ root = NoNode
    /\ err = "none"
    /\ cache = NoNode
    /\ point = NoPoint
    /\ label = 0
    /\ carried_item \in Stacks
    /\ slots \in [1..NumSlots -> Stacks]
    /\ overflow_checks \in BOOLEAN
    /\ result = "none"
    /\ call = NoCall
    /\ clicks = 0

\* one call of Container::handle_item_change; a panic ends the session
HandleItemChange(slot, mouse_click, taking_crafted) ==
    /\ pc = "inventory"
    /\ clicks < MaxClicks
    /\ result \in {"none", "Ok", "Err(InvalidSlot)"}
    /\ LET ret == Container_handle_item_change(carried_item, slots, slot, mouse_click,
                                                taking_crafted, overflow_checks)
       IN  /\ result' = ret.result
           /\ carried_item' = ret.carried_item
           /\ slots' = ret.slots
    /\ call' = [slot |-> slot, mouse_click |-> mouse_click,
                taking_crafted |-> taking_crafted,
                carried_item |-> carried_item, slots |-> slots]
    /\ clicks' = clicks + 1
    /\ UNCHANGED <<overflow_checks, entries, pc, root, err, cache, point, label>>

InventoryNext ==
    \E slot \in 0..(NumSlots + 1), mouse_click \in MouseClick, taking_crafted \in BOOLEAN :
        HandleItemChange(slot, mouse_click, taking_crafted)

InventorySpec == InventoryInit /\ [][InventoryNext]_vars

----------------------------------------------------------------------------
(* What the properties below read off a state *)

Built == pc = "ready"

\* a query has been answered (values count from 1)
Queried == pc = "ready" /\ label # 0

\* the leaves below a node, in the order of the traversal
RECURSIVE Leaves(_)
RECURSIVE LeavesFrom(_, _)
Leaves(node) == IF node.kind = "Leaf" THEN <<node>> ELSE LeavesFrom(node.children, 1)

LeavesFrom(nodes, k) ==
    IF k > Len(nodes) THEN <<>> ELSE Leaves(nodes[k]) \o LeavesFrom(nodes, k + 1)

\* the branches of the tree under a node, the node included
RECURSIVE Branches(_)
Branches(node) ==
    IF node.kind = "Leaf" THEN {}
    ELSE {node} \cup UNION {Branches(node.children[k]) : k \in 1..Len(node.children)}

\* 0 for a leaf, and one more than its highest child for a branch
RECURSIVE Height(_)
Height(node) ==
    IF node.kind = "Leaf" THEN 0
    ELSE LET below == {Height(node.children[k]) : k \in 1..Len(node.children)}
         IN  1 + CHOOSE h \in below : \A g \in below : g <= h

\* squared distance of a coordinate to a range
RangeDistance(range, x) ==
    IF x < range.min THEN (range.min - x) * (range.min - x)
    ELSE IF x > range.max THEN (x - range.max) * (x - range.max)
    ELSE 0

\* squared distance of a sampled point to an entry's hypercube, dimension by
\* dimension; the offset is compared with 0
EntryDistance(h, pt) ==
    RangeDistance(h.temperature, pt.temperature)
    + RangeDistance(h.humidity, pt.humidity)
    + RangeDistance(h.continentalness, pt.continents)
    + RangeDistance(h.erosion, pt.erosion)
    + RangeDistance(h.depth, pt.depth)
    + RangeDistance(h.weirdness, pt.weirdness)
    + RangeDistance(ParameterRange(h.offset, h.offset), 0)

\* the entries of the registry closest to the point
Nearest(pt) ==
    {i \in 1..Len(entries) :
        \A j \in 1..Len(entries) :
            EntryDistance(entries[i].hypercube, pt) <= EntryDistance(entries[j].hypercube, pt)}

\* the linear scan over the registry in its order that keeps the first entry
\* of strictly smaller distance: the first of the nearest entries
LinearScan(pt) == entries[CHOOSE i \in Nearest(pt) : \A j \in Nearest(pt) : i <= j].value

\* the label the descent from the root gives for the point of the last query
TreeLabel == descend(root, point_parameters(point), NoNode).value

\* the labels of the entries closest to the point
NearestLabels(pt) == {entries[i].value : i \in Nearest(pt)}

\* the leaf that create makes of entry i, written out field by field
LeafOfEntry(i) ==
    [kind |-> "Leaf",
     value |-> entries[i].value,
     point |-> << entries[i].hypercube.temperature,
                  entries[i].hypercube.humidity,
                  entries[i].hypercube.continentalness,
                  entries[i].hypercube.erosion,
                  entries[i].hypercube.depth,
                  entries[i].hypercube.weirdness,
                  [min |-> entries[i].hypercube.offset,
                   max |-> entries[i].hypercube.offset] >>]

LeafCount(node) == Len(Leaves(node))

\* the least and the greatest of a non-empty set of numbers
Least(S) == CHOOSE x \in S : \A y \in S : x <= y

Greatest(S) == CHOOSE x \in S : \A y \in S : y <= x

\* the sum over the 7 dimensions of the midpoints of a node's ranges, each
\* taken without its sign, and each taken with its sign
AbsMidpointKey(node) ==
    LET m(i) == Abs(bounds(node)[i].min + bounds(node)[i].max) \div 2
    IN  m(1) + m(2) + m(3) + m(4) + m(5) + m(6) + m(7)

SignedMidpointKey(node) ==
    LET m(i) == (bounds(node)[i].min + bounds(node)[i].max) \div 2
    IN  m(1) + m(2) + m(3) + m(4) + m(5) + m(6) + m(7)

Powers6 == {Pow6(k) : k \in 0..6}

\* the sizes of the children of a branch are those of a cut of its leaves
\* into runs of the given size, the last run possibly shorter
CutInto(branch, size) ==
    /\ Len(branch.children) = (LeafCount(branch) + size - 1) \div size
    /\ \A k \in 1..Len(branch.children) : LeafCount(branch.children[k]) <= size
    /\ Cardinality({k \in 1..Len(branch.children) : LeafCount(branch.children[k]) = size})
         >= LeafCount(branch) \div size

----------------------------------------------------------------------------
(* The properties *)

C3_BranchBoundsAreUnion ==
    Built =>
        \A b \in Branches(root) : \A i \in 1..7 :
            /\ b.bounds[i].min
                 = Least({Leaves(b)[k].point[i].min : k \in 1..LeafCount(b)})
            /\ b.bounds[i].max
                 = Greatest({Leaves(b)[k].point[i].max : k \in 1..LeafCount(b)})

\* a tree with a branch below the root whose bounds are narrower than the root's
C3_Witness ==
    /\ Built
    /\ root.kind = "Branch"
    /\ \E k \in 1..Len(root.children) :
          /\ root.children[k].kind = "Branch"
          /\ root.children[k].bounds # root.bounds

(* C4: the leaves of the tree create returns are the registry's entries,    *)
(* one leaf for each entry, with the entry's value and its 7 ranges (the    *)
(* offset as the range from offset to offset), and no other leaf.           *)
C4_LeavesAreTheEntries ==
    Built =>
        /\ LeafCount(root) = Len(entries)
        /\ \A i \in 1..Len(entries) :
              Cardinality({k \in 1..LeafCount(root) : Leaves(root)[k] = LeafOfEntry(i)}) = 1

\* a tree of three levels whose leaves are not in the registry's order
C4_Witness ==
    /\ Built
    /\ Len(entries) > 36
    /\ \E k \in 1..LeafCount(root) : Leaves(root)[k].value # k

(* C5: in the tree create returns for 2 or more entries, every branch has   *)
(* at least 2 and at most 6 children.                                       *)
C5_BranchingFactor ==
    (Built /\ Len(entries) >= 2) =>
        \A b \in Branches(root) : 2 <= Len(b.children) /\ Len(b.children) <= 6

\* a tree with a branch of 2 and a branch of 6 children
C5_Witness ==
    /\ Built
    /\ \E b \in Branches(root) : Len(b.children) = 2
    /\ \E b \in Branches(root) : Len(b.children) = 6

(* C6: create on a registry of no entries fails with the error              *)
(* EmptyRegistry.                                                           *)
C6_EmptyRegistryError ==
    (Len(entries) = 0 /\ pc # "loaded") => (pc = "failed" /\ err = "EmptyRegistry")

(* C7: for a registry that is not empty create returns a tree: no panic is  *)
(* raised, and every group create_node is called on recursively is not      *)
(* empty and smaller than the caller's.                                     *)
C7_CreateReturnsATree ==
    (Len(entries) > 0 /\ pc # "loaded") =>
        /\ pc = "ready" /\ err = "none"
        /\ root.kind \in {"Leaf", "Branch"}
        /\ \A b \in Branches(root) : \A k \in 1..Len(b.children) :
              /\ LeafCount(b.children[k]) >= 1
              /\ LeafCount(b.children[k]) < LeafCount(b)

\* a tree built by recursion on the 6 groups of 36 entries
C7_Witness ==
    /\ Built
    /\ Len(entries) = 36
    /\ \A k \in 1..Len(root.children) : root.children[k].kind = "Branch"

(* C8, as amended: a group of n > 6 nodes is cut into chunks whose size is  *)
(* the largest power of 6 below n (not exceeding n - 1): 6 for n = 36.      *)
C8_ChunkSizeBelowN ==
    Built =>
        \A b \in Branches(root) :
            LeafCount(b) > 6 =>
                \E c \in Powers6 : c < LeafCount(b) /\ LeafCount(b) <= 6 * c /\ CutInto(b, c)

(* C8 as stated: a group of n > 6 nodes is cut into chunks whose size is    *)
(* the largest power of 6 not exceeding n.                                  *)
C8_ChunkSizeNotExceedingN ==
    Built =>
        \A b \in Branches(root) :
            LeafCount(b) > 6 =>
                \E c \in Powers6 : c <= LeafCount(b) /\ LeafCount(b) < 6 * c /\ CutInto(b, c)

\* a tree of 36 entries cut into 6 groups of 6
C8_Witness ==
    /\ Built
    /\ Len(entries) = 36
    /\ Len(root.children) = 6
    /\ CutInto(root, 6)

(* C9, as amended: for a group of 2 to 6 nodes create_node returns one      *)
(* branch whose children are the group's nodes themselves, ordered          *)
(* ascending by the sum over the 7 dimensions of |min + max| / 2, the       *)
(* midpoints without their signs; nodes of equal sum keep their input order.*)
C9_SmallGroupSortedByAbsKey ==
    (Built /\ Len(entries) >= 2 /\ Len(entries) <= 6) =>
        /\ root.kind = "Branch"
        /\ Len(root.children) = Len(entries)
        /\ \A i \in 1..Len(entries) : \E k \in 1..Len(root.children) :
              root.children[k] = LeafOfEntry(i)
        /\ \A j, k \in 1..Len(root.children) :
              j < k =>
                \/ AbsMidpointKey(root.children[j]) < AbsMidpointKey(root.children[k])
                \/ /\ AbsMidpointKey(root.children[j]) = AbsMidpointKey(root.children[k])
                   /\ root.children[j].value < root.children[k].value

(* C9 as stated: the children are ordered ascending by the sum of the       *)
(* signed midpoints (min + max) / 2.                                        *)
C9_SmallGroupSortedBySignedKey ==
    (Built /\ Len(entries) >= 2 /\ Len(entries) <= 6) =>
        /\ root.kind = "Branch"
        /\ Len(root.children) = Len(entries)
        /\ \A i \in 1..Len(entries) : \E k \in 1..Len(root.children) :
              root.children[k] = LeafOfEntry(i)
        /\ \A j, k \in 1..Len(root.children) :
              j < k =>
                \/ SignedMidpointKey(root.children[j]) < SignedMidpointKey(root.children[k])
                \/ /\ SignedMidpointKey(root.children[j]) = SignedMidpointKey(root.children[k])
                   /\ root.children[j].value < root.children[k].value

\* a branch of 6 leaves that the sort has put in another order
C9_Witness ==
    /\ Built
    /\ Len(entries) = 6
    /\ \A k \in 1..Len(root.children) : root.children[k].kind = "Leaf"
    /\ \E k \in 1..Len(root.children) : root.children[k].value # k

(* C10: the tree built from n entries has the height that is the least k    *)
(* with 6^k >= n: a leaf for n = 1, height 1 up to 6, 2 up to 36, 3 up to   *)
(* 216.                                                                     *)
C10_HeightIsLeastPower ==
    Built =>
        /\ Pow6(Height(root)) >= Len(entries)
        /\ Height(root) > 0 => Pow6(Height(root) - 1) < Len(entries)
        /\ Len(entries) = 1 <=> root.kind = "Leaf"

\* a tree of height 3
C10_Witness ==
    /\ Built
    /\ Len(entries) >= 37
    /\ Height(root) = 3

----------------------------------------------------------------------------
(* The inventory claims *)

\* the number of items of one id in an Option
CountOf(id, stack) ==
    IF stack # None /\ stack[1].item_id = id THEN stack[1].item_count ELSE 0

\* the number of items of one id held on the cursor and in the slots
Held(id, carried, all_slots) ==
    CountOf(id, carried) + SumSeq(Tuple([k \in 1..Len(all_slots) |-> CountOf(id, all_slots[k])]))

\* a call has been made and has returned Ok
Clicked == call.mouse_click # "none" /\ result = "Ok"

(* C11: item conservation. A click that handle_item_change has handled      *)
(* leaves the number of items of each item id, on the cursor and in the     *)
(* slots together, as it was before the click; so no sequence of clicks     *)
(* from stacks of 1 to 64 items creates or destroys items.                  *)
C11_ItemsConserved ==
    Clicked =>
        \A id \in ItemIds :
            Held(id, carried_item, slots) = Held(id, call.carried_item, call.slots)

(* C12: a call of Container::handle_item_change with a slot number that is  *)
(* no index of the container (slot >= N) returns Err(InvalidSlot) and       *)
(* leaves the carried item and every slot as they were.                     *)
C12_InvalidSlotIsAnError ==
    (call.mouse_click # "none" /\ call.slot >= Len(call.slots)) =>
        /\ result = "Err(InvalidSlot)"
        /\ carried_item = call.carried_item
        /\ slots = call.slots

====
